---- MODULE Spec2Model ----
(***************************************************************************)
(* Model of the training orchestrator of multiband-hifigan (src/train.py). *)
(*                                                                         *)
(* Spec     : the resumable training loop of train(rank, a, h): startup    *)
(*            and checkpoint restore, the epoch/batch loop with its        *)
(*            two-phase optimisation protocol, the rank-0 side effects,    *)
(*            the checkpoint directory, and external aborts followed by a  *)
(*            restart of the command.                                      *)
(* SpecLoss : the generator-loss aggregation of one training step as a     *)
(*            pure function of the flags of h and of the loss terms.       *)
(* SpecFair : Spec with weak fairness of the training actions.             *)
(* SpecPart : the per-epoch partition of the training set over the ranks   *)
(*            (DistributedSampler and DataLoader of lines 83-94, 124-127). *)
(* SpecVal  : one validation pass of rank 0 (lines 227-282), batch by      *)
(*            batch.                                                       *)
(*                                                                         *)
(* Learning rates are kept as the number of lr_decay factors applied to    *)
(* h.learning_rate (rate = h.learning_rate * h.lr_decay^k is stored as k). *)
(* Loss values are kept in half units (the stored integer v stands for     *)
(* v/2) so that the code's "*= 0.5" is exact integer arithmetic.           *)
(***************************************************************************)
EXTENDS Integers, Sequences, FiniteSets, TLC

\* ---------------------------------------------------------------- bounds
MaxWorld == 2
MaxEpochs == 2
BatchesPerEpoch == 2
MaxInterval == 2
MaxRuns == 2
MaxTerm == 1
MaxScore == 1
MaxItems == 5
MaxBatchSize == 2
MaxValBatches == 2
MaxLongBatches == 6
MaxLen == 2
MaxValSteps == 1

\* ------------------------------------------------------------- constants
NoFile == -1
Unset == -1
MelWeight == 45
Bands == 4

VARIABLES
    world,      \* h.num_gpus: number of processes spawned by main
    a,          \* parsed command line: training_epochs and the intervals
    files_g,    \* 'g_<steps>' files of a.checkpoint_path
    files_do,   \* 'do_<steps>' files of a.checkpoint_path
    run,        \* how many times the command has been started
    proc,       \* per rank: the locals of train(rank, a, h)
    events,     \* side effects of the current run, in order
    hcfg,       \* SpecLoss: loss flags and output_channel of h
    terms,      \* SpecLoss: the values of the loss terms of one batch
    out,        \* SpecLoss: result of the generator-loss aggregation
    prev,       \* SpecLoss: result before the last flag was disabled
    toggled,    \* SpecLoss: the flag that was switched off, or "none"
    dataset_n,  \* SpecPart: len(trainset)
    batch_size, \* SpecPart: h.batch_size per process
    shard,      \* SpecPart: per rank, the sampler epoch and what it yields
    vloader,    \* SpecVal: the batches of validation_loader
    vsteps,     \* SpecVal: steps when the pass starts
    vpass       \* SpecVal: the locals of the validation pass

vars == <<world, a, files_g, files_do, run, proc, events,
          hcfg, terms, out, prev, toggled,
          dataset_n, batch_size, shard, vloader, vsteps, vpass>>
loopVars == <<world, a, files_g, files_do, run, proc, events>>
lossVars == <<hcfg, terms, out, prev, toggled>>
partVars == <<dataset_n, batch_size, shard>>
valVars == <<vloader, vsteps, vpass>>

Ranks == 0 .. (world - 1)
Heads == {"mpd", "msd", "mbd"}
Components == {"generator"} \cup Heads

\* ------------------------------------------------- checkpoint store
\* scan_checkpoint(dir, prefix): greatest numeric suffix, or None
scan_checkpoint(suffixes) ==
    IF suffixes = {} THEN NoFile
    ELSE CHOOSE s \in suffixes : \A t \in suffixes : t <= s

Suffixes(files) == {f.name : f \in files}

\* load_checkpoint(path): the bundle stored under that name
load_checkpoint(files, name) == CHOOSE f \in files : f.name = name

\* save_checkpoint(path, bundle): torch.save replaces a file of that name
save_checkpoint(files, bundle) ==
    {f \in files : f.name # bundle.name} \cup {bundle}

\* ------------------------------------------------- optimisation state
\* one multiplication of a learning rate by h.lr_decay
Decay(lr) == lr + 1

\* torch.optim.lr_scheduler.ExponentialLR(optim, gamma, last_epoch):
\* the constructor records last_epoch and performs one initial step()
SchedulerStep(s) ==
    [last_epoch |-> s.last_epoch + 1,
     lr |-> IF s.last_epoch + 1 = 0 THEN s.lr ELSE Decay(s.lr)]

ExponentialLR(lr, last_epoch) ==
    SchedulerStep([last_epoch |-> last_epoch, lr |-> lr])

\* parameter sets the two optimizers are built over (lines 70-72)
OptimGParams == {"generator"}

\* variant: the discriminator optimizer is also given generator.parameters()
OptimDParamsWithGenerator == {"generator", "msd", "mpd", "mbd"}

OptimDParams == {"msd", "mpd", "mbd"}

\* variant: gradients are never cleared
ZeroGradKeep(grad, params) == grad

\* optimizer.zero_grad(): drops the gradients of the optimizer's parameters
ZeroGrad(grad, params) ==
    [c \in Components |-> IF c \in params THEN {} ELSE grad[c]]

\* loss.backward(): accumulates into every parameter the loss depends on
Backward(grad, reached, tag) ==
    [c \in Components |-> IF c \in reached THEN grad[c] \cup {tag} ELSE grad[c]]

\* optimizer.step(): updates exactly the optimizer's parameters
OptimStep(param, params) ==
    [c \in Components |-> IF c \in params THEN param[c] + 1 ELSE param[c]]

\* heads run in the discriminator phase (lines 148-160) on y_g_hat.detach()
DiscPhaseHeads == {"mpd", "msd", "mbd"}

\* parameters reached by loss_disc_all.backward(): the fake input is detached
DiscLossReaches == DiscPhaseHeads

\* heads run in the generator phase (lines 185-190) on y_g_hat
GenPhaseHeads == {"mpd", "msd"}

\* parameters reached by loss_gen_all.backward(): generator and the heads used
GenLossReaches == {"generator"} \cup GenPhaseHeads

\* ------------------------------------------------- loss aggregation
\* a loss term value in half units
Full(x) == 2 * x

\* "* 0.5" on a value in half units
Half(v) == v \div 2

RECURSIVE SumOver(_, _)
SumOver(f, S) ==
    IF S = {} THEN 0
    ELSE LET x == CHOOSE y \in S : TRUE IN f[x] + SumOver(f, S \ {x})

\* variant: the full-band term is halved whether or not the sub-band loss is on
LossGAlwaysHalved(h, t) ==
    LET stft == IF h.use_stft THEN 0 + Full(t.stft) ELSE 0
    IN  IF h.use_subband_stft_loss
        THEN Half(stft) + Half(Full(t.sub_stft))
        ELSE Half(stft)

\* loss_g of the generator phase (lines 167-178)
LossG(h, t) ==
    LET stft == IF h.use_stft THEN 0 + Full(t.stft) ELSE 0
    IN  IF h.use_subband_stft_loss
        THEN Half(stft) + Half(Full(t.sub_stft))
        ELSE stft

\* loss_mel (lines 181-183)
LossMel(h, t) == IF h.mel_loss THEN Full(t.mel) * MelWeight ELSE 0

\* the loss terms a training step evaluates (lines 168, 172, 182)
Computed(h) ==
    {n \in {"stft"} : h.use_stft}
    \cup {n \in {"sub_stft"} : h.use_subband_stft_loss}
    \cup {n \in {"mel"} : h.mel_loss}

\* y_mb_ is assigned only when h.output_channel > 1 (lines 138-140); line 176
\* reads it whenever use_subband_stft_loss is set
SubbandUnbound(h) == h.use_subband_stft_loss /\ ~(h.output_channel > 1)

\* loss_gen_all (lines 167-191)
GeneratorLoss(h, t) ==
    IF SubbandUnbound(h)
    THEN [status |-> "error", loss_gen_all |-> 0, computed |-> Computed(h)]
    ELSE [status |-> "ok",
          loss_gen_all |-> SumOver([hd \in Heads |-> Full(t.adv[hd])], GenPhaseHeads)
                           + SumOver([hd \in Heads |-> Full(t.fm[hd])], GenPhaseHeads)
                           + LossMel(h, t) + LossG(h, t),
          computed |-> Computed(h)]

\* ------------------------------------------------- process state
\* variant: the restored step is reused for the next batch
ResumeStepsSame(saved) == saved

\* steps = state_dict_do['steps'] + 1 (line 61)
ResumeSteps(saved) == saved + 1

\* variant: the counter is advanced a second time per batch
IncStepsTwice(s) == s + 2

\* steps += 1 (line 284)
IncSteps(s) == s + 1

\* variant: range(last_epoch, a.training_epochs)
FirstEpochRaw(last_epoch) == last_epoch

\* range(max(0, last_epoch), a.training_epochs) (line 119)
FirstEpoch(last_epoch) == IF last_epoch > 0 THEN last_epoch ELSE 0

InitProc ==
    [pc |-> "startup", cp_g |-> NoFile, cp_do |-> NoFile, restored |-> FALSE,
     steps |-> 0, last_epoch |-> -1, epoch |-> 0, i |-> 0,
     optim_g |-> 0, optim_d |-> 0,
     scheduler_g |-> -1, scheduler_d |-> -1,
     param |-> [c \in Components |-> 0],
     grad |-> [c \in Components |-> {}],
     training |-> TRUE, mel_error |-> Unset,
     executed |-> << >>, ops |-> << >>]

InitLossIdle ==
    /\ hcfg = [use_stft |-> FALSE, use_subband_stft_loss |-> FALSE,
               mel_loss |-> FALSE, output_channel |-> 1]
    /\ terms = [stft |-> 0, sub_stft |-> 0, mel |-> 0,
                adv |-> [hd \in Heads |-> 0], fm |-> [hd \in Heads |-> 0]]
    /\ out = [status |-> "idle", loss_gen_all |-> 0, computed |-> {}]
    /\ prev = out
    /\ toggled = "none"

\* SpecPart and SpecVal variables while another part of the program is
\* looked at
InitPartIdle ==
    /\ dataset_n = 0
    /\ batch_size = 1
    /\ shard = << >>

\* the locals of a validation pass before line 228
ValLocals(pc) ==
    [pc |-> pc, j |-> 0, val_err_tot |-> 0, val_err |-> [num |-> 0, den |-> 0],
     artifacts |-> << >>, operands |-> {}, eval |-> FALSE]

InitValIdle ==
    /\ vloader = << >>
    /\ vsteps = 0
    /\ vpass = ValLocals("idle")

Init ==
    /\ world \in 1 .. MaxWorld
    /\ a \in [training_epochs : {MaxEpochs},
              stdout_interval : 1 .. MaxInterval,
              checkpoint_interval : 1 .. MaxInterval,
              summary_interval : 1 .. MaxInterval,
              validation_interval : 1 .. MaxInterval]
    /\ files_g = {}
    /\ files_do = {}
    /\ run = 1
    /\ proc = [r \in Ranks |-> InitProc]
    /\ events = << >>
    /\ InitLossIdle
    /\ InitPartIdle
    /\ InitValIdle

\* lines 28-117 and the entry of the epoch loop (line 119) on one rank
Restore(p) ==
    LET cp_g == scan_checkpoint(Suffixes(files_g))
        cp_do == scan_checkpoint(Suffixes(files_do))
        fresh == cp_g = NoFile \/ cp_do = NoFile
        sd_g == load_checkpoint(files_g, cp_g)
        sd_do == load_checkpoint(files_do, cp_do)
        steps == IF fresh THEN 0 ELSE ResumeSteps(sd_do.steps)
        last_epoch == IF fresh THEN -1 ELSE sd_do.epoch
        lr_g == IF fresh THEN 0 ELSE sd_do.optim_g
        lr_d == IF fresh THEN 0 ELSE sd_do.optim_d
        sch_g == ExponentialLR(lr_g, last_epoch)
        sch_d == ExponentialLR(lr_d, last_epoch)
        epoch == FirstEpoch(last_epoch)
    IN  [p EXCEPT !.pc = IF epoch < a.training_epochs
                         THEN "batch_loop" ELSE "done",
                  !.cp_g = cp_g, !.cp_do = cp_do,
                  !.restored = ~fresh,
                  !.steps = steps, !.last_epoch = last_epoch,
                  !.epoch = epoch, !.i = 0,
                  !.optim_g = sch_g.lr, !.optim_d = sch_d.lr,
                  !.scheduler_g = sch_g.last_epoch,
                  !.scheduler_d = sch_d.last_epoch,
                  !.param = IF fresh THEN p.param
                            ELSE [c \in Components |->
                                    IF c = "generator" THEN sd_g.generator
                                    ELSE sd_do.heads[c]]]

\* Startup of the processes main spawns (lines 330-333). With
\* h.num_gpus > 1 init_process_group (line 29) and the construction of
\* DistributedDataParallel (lines 65-68) are collectives, so every rank
\* scans the directory (lines 46-48) before any rank enters the loop.
Startup ==
    /\ \A r \in Ranks : proc[r].pc = "startup"
    /\ proc' = [r \in Ranks |-> Restore(proc[r])]
    /\ UNCHANGED <<world, a, files_g, files_do, run, events,
                   lossVars, partVars, valVars>>

\* end of the batch loop: both schedulers step, then the next epoch if there
\* is one (lines 286-290, 119)
EpochEnd(p) ==
    LET sch_g == SchedulerStep([last_epoch |-> p.scheduler_g, lr |-> p.optim_g])
        sch_d == SchedulerStep([last_epoch |-> p.scheduler_d, lr |-> p.optim_d])
    IN  [p EXCEPT !.pc = IF p.epoch + 1 < a.training_epochs
                         THEN "batch_loop" ELSE "done",
                  !.epoch = @ + 1, !.i = 0,
                  !.optim_g = sch_g.lr, !.optim_d = sch_d.lr,
                  !.scheduler_g = sch_g.last_epoch,
                  !.scheduler_d = sch_d.last_epoch]

\* steps += 1 (line 284) and the loop heads that follow: the next batch of
\* the loader (line 127) or, when it is exhausted, the end of the epoch
NextIteration(p) ==
    LET q == [p EXCEPT !.steps = IncSteps(@), !.i = @ + 1]
    IN  IF q.i < BatchesPerEpoch
        THEN [q EXCEPT !.pc = "batch_loop"]
        ELSE EpochEnd(q)

\* update of the locals of rank r, everything else of the loop unchanged
Local(r, rec) ==
    /\ proc' = [proc EXCEPT ![r] = rec]
    /\ UNCHANGED <<world, a, files_g, files_do, run, events,
                   lossVars, partVars, valVars>>

\* one logged side effect of rank r at its current step
Event(r, kind, val) ==
    [kind |-> kind, rank |-> r, steps |-> proc[r].steps, val |-> val]

\* Discriminator phase of one batch on every rank (lines 127-162): next
\* batch of the loader, generator forward, optim_d.zero_grad(), the heads on
\* (y, y_g_hat.detach()), loss_disc_all.backward(). With h.num_gpus > 1 the
\* modules are DistributedDataParallel (lines 64-68) and the backward pass is
\* a blocking gradient reduction: it returns, on all ranks, once every rank
\* has entered it.
DiscriminatorPhase ==
    /\ \A r \in Ranks : proc[r].pc = "batch_loop"
    /\ proc' = [r \in Ranks |->
          [proc[r] EXCEPT
              !.pc = "d_step",
              !.executed = Append(@, [steps |-> proc[r].steps,
                                      epoch |-> proc[r].epoch,
                                      i |-> proc[r].i,
                                      training |-> proc[r].training]),
              !.ops = <<"generator_forward", "d_zero_grad",
                        "d_forward_detached", "d_backward">>,
              !.grad = Backward(ZeroGrad(@, OptimDParams), DiscLossReaches,
                                <<"disc", proc[r].steps>>)]]
    /\ UNCHANGED <<world, a, files_g, files_do, run, events,
                   lossVars, partVars, valVars>>

\* optim_d.step() (line 163)
DStep(r) ==
    LET p == proc[r]
    IN  /\ p.pc = "d_step"
        /\ Local(r, [p EXCEPT !.pc = "g_phase",
                              !.ops = Append(@, "d_step"),
                              !.param = OptimStep(@, OptimDParams)])

\* Generator phase on every rank (lines 166-193): optim_g.zero_grad(), the
\* loss terms, the heads on (y, y_g_hat), loss_gen_all.backward(), which is
\* a blocking gradient reduction like line 162
GeneratorPhase ==
    /\ \A r \in Ranks : proc[r].pc = "g_phase"
    /\ proc' = [r \in Ranks |->
          [proc[r] EXCEPT
              !.pc = "g_step",
              !.ops = @ \o <<"g_zero_grad", "g_forward", "g_backward">>,
              !.grad = Backward(ZeroGrad(@, OptimGParams), GenLossReaches,
                                <<"gen", proc[r].steps>>)]]
    /\ UNCHANGED <<world, a, files_g, files_do, run, events,
                   lossVars, partVars, valVars>>

\* the process that performs the side effects: if rank == 0 (line 196)
IsAuthority(r) == r = 0

\* steps % a.stdout_interval == 0 (line 198)
StdoutDue(steps) == steps % a.stdout_interval = 0

\* steps % a.checkpoint_interval == 0 and steps != 0 (line 206)
CheckpointDue(steps) == steps % a.checkpoint_interval = 0 /\ steps # 0

\* steps % a.summary_interval == 0 (line 222)
SummaryDue(steps) == steps % a.summary_interval = 0

\* steps % a.validation_interval == 0 (line 227)
ValidationDue(steps) == steps % a.validation_interval = 0

\* optim_g.step() (line 194). Rank 0 goes on with the STDOUT logging and
\* the first checkpoint file, g_<steps> (lines 196-209); the other ranks with
\* steps += 1 (line 284).
GStep(r) ==
    LET p == proc[r]
        q == [p EXCEPT !.ops = Append(@, "g_step"),
                       !.param = OptimStep(@, OptimGParams)]
        log == IF StdoutDue(p.steps)
               THEN Append(events, Event(r, "stdout", p.steps))
               ELSE events
    IN  /\ p.pc = "g_step"
        /\ IF ~IsAuthority(r)
           THEN Local(r, NextIteration(q))
           ELSE /\ proc' = [proc EXCEPT ![r] =
                      [q EXCEPT !.pc = IF CheckpointDue(p.steps)
                                       THEN "checkpoint_do" ELSE "summary",
                                !.mel_error = IF StdoutDue(p.steps)
                                              THEN p.steps ELSE @]]
                /\ IF CheckpointDue(p.steps)
                   THEN /\ files_g' = save_checkpoint(files_g,
                                         [name |-> p.steps,
                                          generator |-> q.param["generator"]])
                        /\ events' = Append(log, Event(r, "ckpt_g", 0))
                   ELSE /\ files_g' = files_g
                        /\ events' = log
                /\ UNCHANGED <<world, a, files_do, run, lossVars, partVars, valVars>>

\* checkpointing, second file: do_<steps> (lines 210-219)
CheckpointDO(r) ==
    LET p == proc[r]
    IN  /\ p.pc = "checkpoint_do"
        /\ files_do' = save_checkpoint(files_do,
                          [name |-> p.steps,
                           heads |-> [hd \in Heads |-> p.param[hd]],
                           optim_g |-> p.optim_g, optim_d |-> p.optim_d,
                           steps |-> p.steps, epoch |-> p.epoch])
        /\ proc' = [proc EXCEPT ![r] = [p EXCEPT !.pc = "summary"]]
        /\ events' = Append(events, Event(r, "ckpt_do", 0))
        /\ UNCHANGED <<world, a, files_g, run, lossVars, partVars, valVars>>

\* generator.eval() (line 228)
GeneratorEval(p) == [p EXCEPT !.training = FALSE]

\* variant: the generator is left in evaluation mode
GeneratorTrainSkipped(p) == p

\* generator.train() (line 282)
GeneratorTrain(p) == [p EXCEPT !.training = TRUE]

\* Tensorboard summary logging (lines 222-224) and the validation pass
\* (lines 227-282), whose batches are the subject of SpecVal. mel_error is a
\* local that only line 200 assigns: reading it unassigned at line 224
\* raises UnboundLocalError, which ends the process.
SummaryValidation(r) ==
    LET p == proc[r]
        gen == Event(r, "summary_gen_loss", 0)
        mel == Event(r, "summary_mel", p.mel_error)
        raises == SummaryDue(p.steps) /\ p.mel_error = Unset
        summ == IF ~SummaryDue(p.steps) THEN events
                ELSE IF raises THEN Append(events, gen)
                ELSE Append(Append(events, gen), mel)
        during == GeneratorEval(p)
        pass == Event(r, "validation", IF during.training THEN 1 ELSE 0)
    IN  /\ p.pc = "summary"
        /\ IF raises
           THEN /\ proc' = [proc EXCEPT ![r] = [p EXCEPT !.pc = "crashed"]]
                /\ events' = summ
           ELSE /\ proc' = [proc EXCEPT ![r] =
                      [(IF ValidationDue(p.steps)
                        THEN GeneratorTrain(during) ELSE p)
                          EXCEPT !.pc = "inc"]]
                /\ events' = IF ValidationDue(p.steps)
                             THEN Append(summ, pass)
                             ELSE summ
        /\ UNCHANGED <<world, a, files_g, files_do, run, lossVars, partVars, valVars>>

\* steps += 1 (line 284) on rank 0 and the loop heads that follow
Inc(r) ==
    /\ proc[r].pc = "inc"
    /\ Local(r, NextIteration(proc[r]))

\* the processes are killed from outside and the command is started again
\* on the same checkpoint directory, with the same --training_epochs
\* (line 305) or with the smallest one
AbortAndRestart ==
    /\ run < MaxRuns
    /\ run' = run + 1
    /\ \E te \in {1, a.training_epochs} :
          a' = [a EXCEPT !.training_epochs = te]
    /\ proc' = [r \in Ranks |-> InitProc]
    /\ events' = << >>
    /\ UNCHANGED <<world, files_g, files_do, lossVars, partVars, valVars>>

Next ==
    \/ Startup
    \/ DiscriminatorPhase
    \/ \E r \in Ranks : DStep(r)
    \/ GeneratorPhase
    \/ \E r \in Ranks : GStep(r)
    \/ \E r \in Ranks : CheckpointDO(r)
    \/ \E r \in Ranks : SummaryValidation(r)
    \/ \E r \in Ranks : Inc(r)
    \/ AbortAndRestart

Spec == Init /\ [][Next]_vars

\* ------------------------------------------------- SpecLoss
Flags == {"use_stft", "use_subband_stft_loss", "mel_loss"}

InitLoss ==
    /\ world = 1
    /\ a = [training_epochs |-> 1, stdout_interval |-> 1,
            checkpoint_interval |-> 1, summary_interval |-> 1,
            validation_interval |-> 1]
    /\ files_g = {}
    /\ files_do = {}
    /\ run = 1
    /\ proc = [r \in Ranks |-> InitProc]
    /\ events = << >>
    /\ hcfg \in [use_stft : BOOLEAN, use_subband_stft_loss : BOOLEAN,
                 mel_loss : BOOLEAN, output_channel : {1, 4}]
    /\ terms \in [stft : 0 .. MaxTerm, sub_stft : 0 .. MaxTerm,
                  mel : 0 .. MaxTerm,
                  adv : [Heads -> 0 .. MaxScore],
                  fm : [Heads -> 0 .. MaxScore]]
    /\ out = [status |-> "idle", loss_gen_all |-> 0, computed |-> {}]
    /\ prev = out
    /\ toggled = "none"
    /\ InitPartIdle
    /\ InitValIdle

\* the generator phase of one training step on the batch
ComputeLoss ==
    /\ out.status = "idle"
    /\ out' = GeneratorLoss(hcfg, terms)
    /\ UNCHANGED <<hcfg, terms, prev, toggled, loopVars, partVars, valVars>>

\* the same batch again with one flag of h switched from enabled to disabled
DisableFlag(f) ==
    /\ out.status # "idle"
    /\ toggled = "none"
    /\ hcfg[f]
    /\ hcfg' = [hcfg EXCEPT ![f] = FALSE]
    /\ prev' = out
    /\ out' = GeneratorLoss(hcfg', terms)
    /\ toggled' = f
    /\ UNCHANGED <<terms, loopVars, partVars, valVars>>

NextLoss ==
    \/ ComputeLoss
    \/ \E f \in Flags : DisableFlag(f)

SpecLoss == InitLoss /\ [][NextLoss]_vars

\* ------------------------------------------------- SpecPart
\* the loop variables while a part of one step is looked at on its own
InitLoopIdle ==
    /\ a = [training_epochs |-> MaxEpochs, stdout_interval |-> 1,
            checkpoint_interval |-> 1, summary_interval |-> 1,
            validation_interval |-> 1]
    /\ files_g = {}
    /\ files_do = {}
    /\ run = 1
    /\ proc = [r \in Ranks |-> InitProc]
    /\ events = << >>

CeilDiv(x, y) == (x + y - 1) \div y

\* DistributedSampler(trainset) with its defaults shuffle=True, seed=0,
\* drop_last=False (line 88): num_samples = ceil(len(dataset) / num_replicas)
NumSamples(n, w) == CeilDiv(n, w)

\* item at position k of the permutation the sampler draws for an epoch:
\* torch.randperm seeded with seed + epoch, a function of the epoch alone
Perm(n, epoch, k) == (k + epoch) % n

\* position k of the index list after padding to num_samples * num_replicas:
\* the list is continued with its own first entries
Padded(n, epoch, k) == Perm(n, epoch, k % n)

\* indices[rank : total_size : num_replicas]
SamplerIndices(n, w, rank, epoch) ==
    [m \in 1 .. NumSamples(n, w) |-> Padded(n, epoch, rank + (m - 1) * w)]

\* train_sampler is None with one process: the loader reads the set in order
SequentialIndices(n) == [m \in 1 .. n |-> m - 1]

\* DataLoader(batch_size=h.batch_size, drop_last=True) (lines 90-94)
NumBatches(len, b) == len \div b

InitPart ==
    /\ world \in 1 .. MaxWorld
    /\ InitLoopIdle
    /\ InitLossIdle
    /\ InitValIdle
    /\ dataset_n \in 1 .. MaxItems
    /\ batch_size \in 1 .. MaxBatchSize
    /\ shard = [r \in Ranks |-> [epoch |-> -1, items |-> << >>, batches |-> 0]]

\* head of one epoch on rank r: train_sampler.set_epoch(epoch) and the
\* iterator of train_loader (lines 124-127)
EpochData(r) ==
    LET epoch == shard[r].epoch + 1
        items == IF world > 1
                 THEN SamplerIndices(dataset_n, world, r, epoch)
                 ELSE SequentialIndices(dataset_n)
    IN  /\ epoch < a.training_epochs
        /\ shard' = [shard EXCEPT ![r] =
              [epoch |-> epoch, items |-> items,
               batches |-> NumBatches(Len(items), batch_size)]]
        /\ UNCHANGED <<dataset_n, batch_size, loopVars, lossVars, valVars>>

NextPart == \E r \in Ranks : EpochData(r)

SpecPart == InitPart /\ [][NextPart]_vars

\* ------------------------------------------------- SpecVal
\* A validation batch is [stft, sub_stft, mel, gen_t, y_len, y_mel_frames,
\* gen_mel_frames]: the values the three losses return on it, the samples
\* per channel of the generator output, the samples of the target waveform,
\* the frames of the target mel and of the mel of the generated waveform.
\* val_err_tot is kept in units of 1 / ValUnit so that "*= 0.5" is exact.
RECURSIVE Pow2(_)
Pow2(n) == IF n = 0 THEN 1 ELSE 2 * Pow2(n - 1)

ValUnit == Pow2(Len(vloader))

Min(x, y) == IF x < y THEN x ELSE y

\* pqmf.analysis(y): samples per band of a waveform of len samples
SubLen(len) == CeilDiv(len, Bands)

\* variant: artifacts are emitted for every batch
EmitsArtifactsAlways(j) == TRUE

\* if j <= 4 (line 267)
EmitsArtifacts(j) == j <= 4

\* one iteration of the loop of line 232 on batch b with index j (lines
\* 233-277)
ValBatch(h, steps, st, b, j) ==
    LET gen_len == h.output_channel * b.gen_t
        y_len == IF gen_len < b.y_len THEN gen_len ELSE b.y_len
        stft_ops == [loss |-> "stft", x |-> Min(gen_len, y_len), y |-> y_len]
        t1 == IF h.use_stft
              THEN st.val_err_tot + ValUnit * b.stft
              ELSE st.val_err_tot
        y_mb == SubLen(y_len)
        sub_ops == [loss |-> "sub_stft", x |-> Min(b.gen_t, y_mb), y |-> y_mb]
        t2 == IF h.use_subband_stft_loss
              THEN (t1 \div 2) + ((ValUnit * b.sub_stft) \div 2)
              ELSE t1
        mel_ops == [loss |-> "mel", x |-> b.y_mel_frames,
                    y |-> Min(b.gen_mel_frames, b.y_mel_frames)]
        \* F.l1_loss raises on shapes that do not broadcast
        mel_raises == h.mel_loss /\ mel_ops.x # mel_ops.y /\ mel_ops.y # 1
        t3 == IF h.mel_loss THEN t2 + ValUnit * b.mel ELSE t2
        gt == IF steps = 0
              THEN <<[kind |-> "gt", j |-> j]>> ELSE << >>
        emitted == IF EmitsArtifacts(j)
                   THEN gt \o <<[kind |-> "generated", j |-> j]>>
                   ELSE << >>
        operands == {o \in {stft_ops} : h.use_stft}
                    \cup {o \in {sub_ops} : h.use_subband_stft_loss}
                    \cup {o \in {mel_ops} : h.mel_loss}
    IN  IF mel_raises
        THEN [st EXCEPT !.pc = "error", !.val_err_tot = t2,
                        !.operands = operands]
        ELSE [st EXCEPT !.j = j + 1, !.val_err_tot = t3,
                        !.operands = operands,
                        !.artifacts = @ \o emitted]

PlainLengths ==
    [gen_t |-> 1, y_len |-> Bands, y_mel_frames |-> 1, gen_mel_frames |-> 1]

MakeBatch(t, l) ==
    [stft |-> t.stft, sub_stft |-> t.sub_stft, mel |-> t.mel,
     gen_t |-> l.gen_t, y_len |-> l.y_len,
     y_mel_frames |-> l.y_mel_frames, gen_mel_frames |-> l.gen_mel_frames]

ZeroTerms == [stft |-> 0, sub_stft |-> 0, mel |-> 0]

\* loaders whose batches differ in the loss values
TermLoaders ==
    LET batches == {MakeBatch(t, PlainLengths) :
                      t \in [stft : {0, MaxTerm}, sub_stft : {0, MaxTerm},
                             mel : {0, MaxTerm}]}
    IN  UNION {[1 .. n -> batches] : n \in 0 .. MaxValBatches}

\* loaders of up to MaxLongBatches equal batches
LongLoaders ==
    {[k \in 1 .. n |-> MakeBatch(ZeroTerms, PlainLengths)] :
        n \in 0 .. MaxLongBatches}

\* loaders of one batch whose lengths differ
LengthLoaders ==
    {<<MakeBatch(ZeroTerms, l)>> :
        l \in [gen_t : 1 .. MaxLen, y_len : 1 .. (Bands * MaxLen),
               y_mel_frames : 1 .. MaxLen, gen_mel_frames : 1 .. MaxLen]}

\* rank 0 at line 227 with the validation due; a configuration on which the
\* training step before it has not raised
InitVal ==
    /\ world = 1
    /\ InitLoopIdle
    /\ InitPartIdle
    /\ hcfg \in {h \in [use_stft : BOOLEAN, use_subband_stft_loss : BOOLEAN,
                        mel_loss : BOOLEAN, output_channel : {1, Bands}] :
                   ~SubbandUnbound(h)}
    /\ terms = [stft |-> 0, sub_stft |-> 0, mel |-> 0,
                adv |-> [hd \in Heads |-> 0], fm |-> [hd \in Heads |-> 0]]
    /\ out = [status |-> "idle", loss_gen_all |-> 0, computed |-> {}]
    /\ prev = out
    /\ toggled = "none"
    /\ vloader \in TermLoaders \cup LongLoaders \cup LengthLoaders
    /\ vsteps \in 0 .. MaxValSteps
    /\ vpass = ValLocals("ready")

\* generator.eval(), val_err_tot = 0 (lines 228-230)
ValBegin ==
    /\ vpass.pc = "ready"
    /\ vpass' = [vpass EXCEPT !.pc = "loop", !.eval = TRUE, !.val_err_tot = 0]
    /\ UNCHANGED <<vloader, vsteps, loopVars, lossVars, partVars>>

\* the next batch of validation_loader (lines 232-277)
ValBatchStep ==
    /\ vpass.pc = "loop"
    /\ vpass.j < Len(vloader)
    /\ vpass' = ValBatch(hcfg, vsteps, vpass, vloader[vpass.j + 1], vpass.j)
    /\ UNCHANGED <<vloader, vsteps, loopVars, lossVars, partVars>>

\* val_err = val_err_tot / (j + 1), the scalar, generator.train() (lines
\* 279-282); j is unassigned when the loader yielded no batch
ValEnd ==
    /\ vpass.pc = "loop"
    /\ vpass.j = Len(vloader)
    /\ vpass' = IF vpass.j = 0
                THEN [vpass EXCEPT !.pc = "error"]
                ELSE [vpass EXCEPT !.pc = "done", !.eval = FALSE,
                         !.val_err = [num |-> vpass.val_err_tot,
                                      den |-> (vpass.j - 1) + 1]]
    /\ UNCHANGED <<vloader, vsteps, loopVars, lossVars, partVars>>

NextVal ==
    \/ ValBegin
    \/ ValBatchStep
    \/ ValEnd

SpecVal == InitVal /\ [][NextVal]_vars

\* ------------------------------------------------- properties
BothFound(p) == p.cp_g # NoFile /\ p.cp_do # NoFile
NoneFound(p) == p.cp_g = NoFile /\ p.cp_do = NoFile
Started(p) == p.pc # "startup"

\* C1: when startup finds both checkpoint kinds and the restored bundle
\* records step S, the first batch of the run is processed with step S+1 on
\* every rank; when no checkpoint exists it is processed with step 0.
C1_ResumeStep ==
    \A r \in Ranks :
        LET p == proc[r]
        IN  Len(p.executed) > 0 =>
              /\ BothFound(p) =>
                   Head(p.executed).steps
                     = load_checkpoint(files_do, p.cp_do).steps + 1
              /\ NoneFound(p) => Head(p.executed).steps = 0

C1_Witness ==
    /\ world > 1
    /\ \A r \in Ranks :
          /\ BothFound(proc[r])
          /\ Len(proc[r].executed) > 0
          /\ Head(proc[r].executed).steps > 1

\* C2: when startup finds exactly one of the two checkpoint kinds, train
\* aborts before any training step; it never trains from step 0 with fresh
\* optimizer and scheduler state.
C2_InconsistentSetIsFatal ==
    \A r \in Ranks :
        LET p == proc[r]
        IN  (Started(p) /\ ~BothFound(p) /\ ~NoneFound(p)) =>
               /\ p.pc = "fatal"
               /\ p.executed = << >>

\* C3: on every rank the steps at which batches are processed in one run are
\* contiguous and strictly increasing: each batch adds exactly 1, also across
\* an epoch boundary and whatever side effects fired.
C3_StepContiguity ==
    \A r \in Ranks :
        LET e == proc[r].executed
        IN  /\ \A k \in 1 .. (Len(e) - 1) : e[k + 1].steps = e[k].steps + 1
            /\ Len(e) > 0 /\ proc[r].pc # "batch_loop" /\ proc[r].pc # "done"
                 => proc[r].steps = e[Len(e)].steps

C3_Witness ==
    /\ world > 1
    /\ \A r \in Ranks :
          \E k \in 1 .. (Len(proc[r].executed) - 1) :
              proc[r].executed[k + 1].epoch # proc[r].executed[k].epoch

\* C4: in a resumed run the learning rate of both optimizers in epoch e is
\* the rate of an uninterrupted run in epoch e, h.learning_rate * lr_decay^e.
C4_LrContinuity ==
    \A r \in Ranks :
        LET p == proc[r]
        IN  (Started(p) /\ p.restored) =>
               /\ p.optim_g = p.epoch
               /\ p.optim_d = p.epoch

\* number of side effects of a kind performed at step s by the ranks in R
Count(kind, s, R) ==
    Cardinality({k \in DOMAIN events :
                    /\ events[k].kind = kind
                    /\ events[k].steps = s
                    /\ events[k].rank \in R})

\* the condition the code attaches to a kind of side effect
Due(kind, s) ==
    CASE kind = "stdout" -> StdoutDue(s)
      [] kind \in {"ckpt_g", "ckpt_do"} -> CheckpointDue(s)
      [] kind \in {"summary_gen_loss", "summary_mel"} -> SummaryDue(s)
      [] kind = "validation" -> ValidationDue(s)

Kinds == {"stdout", "ckpt_g", "ckpt_do", "summary_gen_loss", "summary_mel",
          "validation"}

\* steps of the batches rank 0 is through with in this run
Finished0 ==
    {proc[0].executed[k].steps : k \in
        {j \in DOMAIN proc[0].executed :
            \/ j < Len(proc[0].executed)
            \/ proc[0].pc \in {"inc", "batch_loop", "done", "crashed"}}}

\* C5: at the end of the batch processed with step s rank 0 has written a
\* checkpoint pair iff s % checkpoint_interval = 0 and s # 0, run a
\* validation pass iff s % validation_interval = 0, printed the console line
\* iff s % stdout_interval = 0 and written the scalar summaries iff
\* s % summary_interval = 0; nothing fires at another step, nothing is missed.
C5_SideEffectSchedule ==
    /\ \A k \in DOMAIN events : Due(events[k].kind, events[k].steps)
    /\ \A s \in Finished0 : \A kind \in Kinds :
          Count(kind, s, {0}) = IF Due(kind, s) THEN 1 ELSE 0

\* C6: every checkpoint write, log or summary write and validation pass is
\* performed by rank 0 and by no other rank, so each side effect that is due
\* at a step happens exactly once in total across all processes.
C6_AuthorityExclusive ==
    /\ \A k \in DOMAIN events : events[k].rank = 0
    /\ \A s \in Finished0 : \A kind \in Kinds :
          Due(kind, s) => Count(kind, s, Ranks) = 1

ProtocolOrder ==
    <<"generator_forward", "d_zero_grad", "d_forward_detached", "d_backward",
      "d_step", "g_zero_grad", "g_forward", "g_backward", "g_step">>

AfterGStep == {"checkpoint_do", "summary", "inc", "crashed"}

\* C7: the operations of a training step occur in the order of the two-phase
\* protocol and each optimizer steps once per batch; when the discriminator
\* optimizer steps the discriminator gradients come only from this step's
\* discriminator loss, and when the generator optimizer steps the generator
\* gradients come only from this step's generator loss.
C7_TwoPhaseProtocol ==
    \A r \in Ranks :
        LET p == proc[r]
        IN  /\ Len(p.ops) <= Len(ProtocolOrder)
            /\ p.ops = SubSeq(ProtocolOrder, 1, Len(p.ops))
            /\ p.pc \in AfterGStep => p.ops = ProtocolOrder
            /\ p.pc = "d_step" =>
                  \A c \in OptimDParams : p.grad[c] = {<<"disc", p.steps>>}
            /\ p.pc = "g_step" =>
                  \A c \in OptimGParams : p.grad[c] = {<<"gen", p.steps>>}

C7_Witness ==
    \E r \in Ranks :
        /\ proc[r].pc = "g_step"
        /\ Len(proc[r].executed) > 1
        /\ world > 1

\* C8: the discriminator optimizer step leaves every generator parameter
\* unchanged and updates the three heads, the generator optimizer step leaves
\* every parameter of the three heads unchanged; the parameter sets of the
\* two optimizers are disjoint and the discriminator's covers all heads.
C8_OptimizerFrame ==
    [][\A r \in Ranks :
          /\ (proc[r].pc = "d_step" /\ proc'[r].pc = "g_phase") =>
                /\ proc'[r].param["generator"] = proc[r].param["generator"]
                /\ \A hd \in Heads : proc'[r].param[hd] # proc[r].param[hd]
          /\ (proc[r].pc = "g_step" /\ proc'[r].pc \in {"checkpoint_do", "summary", "batch_loop", "done"}) =>
                /\ \A hd \in Heads : proc'[r].param[hd] = proc[r].param[hd]
                /\ proc'[r].param["generator"] # proc[r].param["generator"]]_vars

C8_Witness ==
    \E r \in Ranks :
        /\ proc[r].pc = "done"
        /\ proc[r].param["generator"] > 1
        /\ \A hd \in Heads : proc[r].param[hd] > 1

\* C9: the generator's adversarial loss sums the fake-score losses of all
\* three heads and the feature-matching loss sums over all three heads, so
\* the band head enters the total generator loss as it enters the
\* discriminator loss.
C9_AllHeadsInGeneratorLoss ==
    /\ DiscPhaseHeads = Heads
    /\ out.status = "ok" =>
          out.loss_gen_all
            = SumOver([hd \in Heads |-> Full(terms.adv[hd])], Heads)
              + SumOver([hd \in Heads |-> Full(terms.fm[hd])], Heads)
              + LossMel(hcfg, terms) + LossG(hcfg, terms)

BothTotals == toggled # "none" /\ prev.status = "ok" /\ out.status = "ok"

TermOf(f) ==
    CASE f = "use_stft" -> "stft"
      [] f = "use_subband_stft_loss" -> "sub_stft"
      [] f = "mel_loss" -> "mel"

\* a disabled term is not evaluated and its value does not enter the total
DisabledTermsAbsent ==
    out.status = "ok" =>
        \A f \in Flags : ~hcfg[f] =>
            /\ TermOf(f) \notin out.computed
            /\ \A v \in 0 .. MaxTerm :
                  GeneratorLoss(hcfg, [terms EXCEPT ![TermOf(f)] = v]).loss_gen_all
                    = out.loss_gen_all

\* C10 as stated: for the same batch, switching any one of use_stft,
\* use_subband_stft_loss, mel_loss from enabled to disabled yields a total
\* generator loss that is at most the total with the flag enabled; a disabled
\* term contributes zero and is not computed.
C10_FlagMonotonicity ==
    /\ BothTotals => out.loss_gen_all <= prev.loss_gen_all
    /\ DisabledTermsAbsent

\* C10 amended: switching use_stft or mel_loss off never increases the total;
\* switching use_subband_stft_loss off also undoes the halving of the
\* full-band spectral term, so the total does not increase exactly when
\* use_stft is off or the full-band term is at most the sub-band term; a
\* disabled term contributes zero and is not computed.
C10_FlagMonotonicityAmended ==
    /\ (BothTotals /\ toggled \in {"use_stft", "mel_loss"}) =>
          out.loss_gen_all <= prev.loss_gen_all
    /\ (BothTotals /\ toggled = "use_subband_stft_loss") =>
          (out.loss_gen_all <= prev.loss_gen_all
             <=> (hcfg.use_stft => terms.stft <= terms.sub_stft))
    /\ DisabledTermsAbsent

C10_Witness ==
    /\ BothTotals
    /\ toggled = "use_subband_stft_loss"
    /\ hcfg.use_stft
    /\ terms.stft > terms.sub_stft
    /\ out.loss_gen_all > prev.loss_gen_all

\* ------------------------------------------------- properties, continued
\* C13: a validation pass runs with the generator in evaluation mode and
\* changes neither steps, epoch, a parameter, nor optimizer or scheduler
\* state; when it returns the generator is in training mode again, so every
\* generator forward pass of a training step runs in training mode.
C13_ValidationFrame ==
    /\ [](\A r \in Ranks : \A k \in DOMAIN proc[r].executed :
             proc[r].executed[k].training)
    /\ [](\A k \in DOMAIN events :
             events[k].kind = "validation" => events[k].val = 0)
    /\ [][\A r \in Ranks :
             (proc[r].pc = "summary" /\ proc'[r].pc = "inc") =>
                 proc'[r] = [proc[r] EXCEPT !.pc = "inc"]]_vars

C13_Witness ==
    /\ world > 1
    /\ \E k \in DOMAIN events :
          /\ events[k].kind = "validation"
          /\ \E n \in DOMAIN proc[0].executed :
                proc[0].executed[n].steps = events[k].steps + 1

\* the training actions are taken when they stay possible; an abort from
\* outside is never forced
Fairness ==
    /\ WF_vars(Startup)
    /\ WF_vars(DiscriminatorPhase)
    /\ WF_vars(GeneratorPhase)
    /\ \A r \in 0 .. (MaxWorld - 1) :
          /\ WF_vars(r \in Ranks /\ DStep(r))
          /\ WF_vars(r \in Ranks /\ GStep(r))
          /\ WF_vars(r \in Ranks /\ CheckpointDO(r))
          /\ WF_vars(r \in Ranks /\ SummaryValidation(r))
          /\ WF_vars(r \in Ranks /\ Inc(r))

SpecFair == Init /\ [][Next]_vars /\ Fairness

\* the ranks agree on step, epoch and batch index of every batch they have
\* both started
SameBatches ==
    \A r1, r2 \in Ranks :
        \A k \in DOMAIN proc[r1].executed \cap DOMAIN proc[r2].executed :
            /\ proc[r1].executed[k].steps = proc[r2].executed[k].steps
            /\ proc[r1].executed[k].epoch = proc[r2].executed[k].epoch
            /\ proc[r1].executed[k].i = proc[r2].executed[k].i

AllDone == \A r \in Ranks : proc[r].pc = "done"

\* C15: all processes execute the same batches with the same step numbers,
\* the side effects of rank 0 only delay the others, and under fair
\* scheduling every process reaches the end of the final epoch.
C15_LockStepProgress ==
    /\ []SameBatches
    /\ <>[]AllDone

\* C16: a fresh run executes the epochs 0 .. training_epochs-1, each with
\* every batch of the loader once, each followed by one step of both
\* schedulers, and then terminates, on the epoch counter alone; a resumed run
\* whose restored epoch is >= training_epochs executes no step and terminates.
C16_EpochProgression ==
    \A r \in Ranks :
        LET p == proc[r]
        IN  /\ (Started(p) /\ ~p.restored) =>
                 /\ \A k \in DOMAIN p.executed :
                       /\ p.executed[k].epoch = (k - 1) \div BatchesPerEpoch
                       /\ p.executed[k].i = (k - 1) % BatchesPerEpoch
                 /\ p.pc = "done" <=> p.epoch = a.training_epochs
                 /\ p.pc = "done" =>
                       Len(p.executed) = a.training_epochs * BatchesPerEpoch
                 /\ p.scheduler_g = p.epoch
                 /\ p.scheduler_d = p.epoch
            /\ (Started(p) /\ p.restored
                  /\ p.last_epoch >= a.training_epochs) =>
                 /\ p.pc = "done"
                 /\ p.executed = << >>

C16_Witness ==
    /\ world > 1
    /\ \A r \in Ranks :
          /\ proc[r].restored
          /\ proc[r].last_epoch >= a.training_epochs
          /\ proc[r].pc = "done"

\* C17: whenever startup restores state, the 'g_' file and the 'do_' file it
\* loads carry the same step suffix.
C17_RestoredPairOneSnapshot ==
    \A r \in Ranks :
        BothFound(proc[r]) => proc[r].cp_g = proc[r].cp_do

\* C18: in a resumed run every step is executed in the epoch and at the
\* batch position of that step in an uninterrupted run, and the run ends at
\* the final step number of the uninterrupted run.
C18_ContinuationEquivalence ==
    \A r \in Ranks :
        LET p == proc[r]
        IN  p.restored =>
              /\ \A k \in DOMAIN p.executed :
                    /\ p.executed[k].epoch
                         = p.executed[k].steps \div BatchesPerEpoch
                    /\ p.executed[k].i
                         = p.executed[k].steps % BatchesPerEpoch
              /\ p.pc = "done" =>
                    p.steps = a.training_epochs * BatchesPerEpoch

\* C20: every 'training/mel_spec_error' scalar written at step s is the mel
\* error computed from the batch of step s, never that of an earlier step
\* and never an unassigned value.
C20_SummaryFreshness ==
    /\ \A k \in DOMAIN events :
          events[k].kind = "summary_mel" => events[k].val = events[k].steps
    /\ \A r \in Ranks : proc[r].pc # "crashed"

ItemsOf(r) == {shard[r].items[m] : m \in DOMAIN shard[r].items}

\* every rank has drawn its partition of the same epoch
SameEpochDrawn ==
    /\ world > 1
    /\ shard[0].epoch >= 0
    /\ \A r \in Ranks : shard[r].epoch = shard[0].epoch

\* C14: with W > 1 processes and N items, in every epoch each process has
\* floor(N/W) or ceil(N/W) items, the partitions are pairwise disjoint and
\* their union holds each of the N items exactly once, none duplicated to
\* pad a shard and none omitted.
C14_DataPartition ==
    SameEpochDrawn =>
        /\ \A r \in Ranks :
              /\ Len(shard[r].items)
                   \in {dataset_n \div world, CeilDiv(dataset_n, world)}
              /\ Cardinality(ItemsOf(r)) = Len(shard[r].items)
        /\ \A r1, r2 \in Ranks :
              r1 # r2 => ItemsOf(r1) \cap ItemsOf(r2) = {}
        /\ UNION {ItemsOf(r) : r \in Ranks} = 0 .. (dataset_n - 1)

\* sum, in half units, of the enabled loss terms of a batch with the weights
\* of a training step
TrainWeighted(b) == LossG(hcfg, b) + LossMel(hcfg, b)

\* C11: the value a validation pass reports is the arithmetic mean, over all
\* B validation batches, of the per-batch sum of the enabled loss terms,
\* each batch weighted as in a training step; a later batch does not change
\* what an earlier batch contributed.
C11_ValidationMean ==
    vpass.pc = "done" =>
        /\ vpass.val_err.den = Len(vloader)
        /\ 2 * vpass.val_err.num
             = ValUnit * SumOver([k \in DOMAIN vloader |->
                                     TrainWeighted(vloader[k])],
                                 DOMAIN vloader)

ArtifactCount(kind, j) ==
    Cardinality({k \in DOMAIN vpass.artifacts :
                    /\ vpass.artifacts[k].kind = kind
                    /\ vpass.artifacts[k].j = j})

\* C12: a validation pass over B batches emits generated-sample artifacts
\* for exactly the batch indices 0 .. min(B, 5) - 1, once each; ground-truth
\* artifacts are emitted for those indices by the pass that runs at step 0
\* and by no pass at a later step.
C12_QualitativeArtifacts ==
    /\ \A k \in DOMAIN vpass.artifacts :
          /\ vpass.artifacts[k].j < Min(Len(vloader), 5)
          /\ vpass.artifacts[k].j < vpass.j
          /\ vpass.artifacts[k].kind = "gt" => vsteps = 0
    /\ \A j \in 0 .. (vpass.j - 1) :
          /\ ArtifactCount("generated", j) = IF j < 5 THEN 1 ELSE 0
          /\ ArtifactCount("gt", j) = IF j < 5 /\ vsteps = 0 THEN 1 ELSE 0
    /\ vpass.pc = "done" => vpass.j = Len(vloader)

C12_Witness ==
    /\ vpass.pc = "done"
    /\ Len(vloader) = 6
    /\ vsteps = 0
    /\ Len(vpass.artifacts) = 10

\* C19: in a validation pass the two operands of every enabled loss have
\* equal length when the loss is computed, whichever of generator output and
\* target is the longer one, for the waveforms and for the mel frames.
C19_ValidationLengthAlignment ==
    \A o \in vpass.operands : o.x = o.y
====
